---- MODULE Spec2Model ----
(***************************************************************************)
(* Model of wavelink's WebSocket (src/wavelink/websocket.py): the connect  *)
(* handshake (_connect), the receive loop (_listen) with its reconnect     *)
(* path, the frame dispatcher (process_data), the sender (_send), and the  *)
(* tasks they schedule on the single cooperative event loop.               *)
(* A step of the model is the code a task runs between two suspension      *)
(* points (await), which is atomic under cooperative scheduling.  Every    *)
(* await of the source is taken as a point where other tasks may run:      *)
(* wait_until_ready(), ws_connect(), receive(), asyncio.sleep() and the    *)
(* session's update_state().  A transport closes when a receive() on it    *)
(* returns the closure indicator; a transport no task receives on stays    *)
(* open.  The Backoff Generator (backoff.py) is not part of the sources at *)
(* hand and follows its description: base^min(exponent, cap).              *)
(***************************************************************************)
EXTENDS Integers, Sequences, FiniteSets

\* ---------------------------------------------------------------- bounds
\* Transport objects ws_connect() can hand out during one run.
MaxConns == 3
\* _connect() coroutines in flight at the same time.
MaxTasks == 2
\* connect() invocations made by the host on this WebSocket object.
MaxCallerConnects == 1
\* Task slots for _listen() coroutines.
MaxLoops == 2
\* process_data() tasks in flight at the same time (Spec, DispatchSpec).
MaxDispatch == 1
\* process_data() tasks in flight at the same time where their order is studied
\* (PumpSpec).
MaxPending == 2
\* Sessions in the Node's players mapping; one more guild id has no session.
MaxSessions == 2
\* Distinct bodies a stats frame can carry.
MaxBody == 2
\* The ready-announcement count of a connection saturates here ("or more").
CountCap == 2
\* Ceiling of the backoff exponent (the generator's tunable cap).
BackoffCap == 2

\* ------------------------------------------------------- program constants
\* ExponentialBackoff(base=7)
BackoffBase == 7

ConnIds == 1..MaxConns
LoopIds == 1..MaxLoops

\* The keys of self._node.players, and the guild ids frames can carry.
Sessions == 1..MaxSessions
GuildIds == 1..(MaxSessions + 1)

\* The event names _get_event_payload knows, and one it does not.
EventNames == {"TrackEndEvent", "TrackStartEvent", "TrackExceptionEvent",
               "TrackStuckEvent", "WebSocketClosedEvent"}
UnknownEventName == "PlayerPauseEvent"

\* A decoded frame: op ("": the key is missing), and the fields the op goes with
\* (0: a field process_data does not read for that op).
Frame(op, type, guildId, body) == [op |-> op, type |-> type, guildId |-> guildId, body |-> body]
NoFrame == Frame("", "", 0, 0)
\* A frame whose op process_data has no branch for.
IgnoredFrame == Frame("ping", "", 0, 0)
Frames ==
    {NoFrame, IgnoredFrame}
    \cup {Frame("stats", "", 0, b) : b \in 1..MaxBody}
    \cup {Frame("event", t, g, 0) : t \in EventNames \cup {UnknownEventName}, g \in GuildIds}
    \cup {Frame("playerUpdate", "", g, 0) : g \in GuildIds}

\* A call of bot.dispatch(name, self._node, payload): the payload's class and the
\* session it carries ("" and 0: no payload).
Emit(name, payload, player) == [name |-> name, node |-> "node", payload |-> payload, player |-> player]
NodeReady == Emit("wavelink_node_ready", "", 0)
NodeConnectionClosed == Emit("wavelink_node_connection_closed", "", 0)

VARIABLES
    conns,           \* transport objects: "unused" (not yet created), "open", "closed"
    websocket,       \* self._websocket: 0 (None) or the transport it refers to
    last_exc,        \* self._last_exc: "none", "auth" (handshake 401), "transport"
    available,       \* self._node.available
    closed,          \* self._closed: "unset", "true", "false"
    task,            \* self._task: 0 (None) or the _listen task it refers to
    auto_reconnect,  \* self.auto_reconnect
    loops,           \* the _listen tasks: position, transport received on, backoff
    nWait,           \* _connect tasks suspended in bot.wait_until_ready()
    nHandshake,      \* _connect tasks suspended in session.ws_connect()
    dispatch,        \* process_data tasks scheduled and not finished, oldest first
    stats,           \* self._node.stats: 0 (None) or the body of the frame it was built from
    announced,       \* node-ready notifications emitted for the transport _websocket refers to
    calls,           \* connect() invocations made by the host so far
    reconnected,     \* a handshake has succeeded since the last backoff delay was drawn
    closure_seen,    \* some receive loop has observed a closure
    stopped,         \* a loop has ended with auto_reconnect off, which has stayed off since
    ev               \* the step just taken: its name, the loop that took it, what it emitted

vars == <<conns, websocket, last_exc, available, closed, task, auto_reconnect, loops,
          nWait, nHandshake, dispatch, stats, announced, calls, reconnected,
          closure_seen, stopped, ev>>

\* ---------------------------------------------------------------- helpers
Min(a, b) == IF a < b THEN a ELSE b

RECURSIVE Pow(_, _)
Pow(b, e) == IF e = 0 THEN 1 ELSE b * Pow(b, e - 1)

\* A _listen task slot that holds no task.
NoLoop == [pc |-> "off", rx |-> 0, exp |-> 0, retry |-> 0]

\* The step record: the step's name, the _listen task that took it (0: none), its
\* input, the frame it was about and the place its process_data task had among
\* the tasks in flight (0: none), how the coroutine left the step ("returned",
\* "raised", "suspended"; "" where that is not recorded), and the calls of
\* bot.dispatch() it made.
FrameEvent(op, loop, arg, frame, slot, res, out) ==
    [op |-> op, loop |-> loop, arg |-> arg, frame |-> frame, slot |-> slot, res |-> res,
     out |-> out]

Event(op, loop, arg, out) == FrameEvent(op, loop, arg, NoFrame, 0, "", out)

\* is_connected of a WebSocket whose _websocket is ws, over the transports cs.
IsConnectedOf(ws, cs) == ws # 0 /\ cs[ws] = "open"

\* self.is_connected
is_connected == IsConnectedOf(websocket, conns)

\* The _listen tasks that have not finished.
ActiveLoops == {i \in LoopIds : loops[i].pc \in {"start", "recv", "sleep"}}

FreeLoops == {i \in LoopIds : loops[i].pc = "off"}

\* The transports that are opened and not closed.
LiveConns == {c \in ConnIds : conns[c] = "open"}

\* The next transport object ws_connect() creates.
FreshConn == CHOOSE c \in ConnIds : conns[c] = "unused" /\ \A d \in ConnIds : d < c => conns[d] # "unused"

\* ------------------------------------------------------ Backoff Generator
\* next_delay(): base^min(exponent, cap) for the exponent counter before the call.
BackoffDelay(exp) == Pow(BackoffBase, Min(exp, BackoffCap))

\* The exponent counter after a call of next_delay(); beyond the cap the delay
\* no longer changes, so the counter is kept at the cap.
BackoffNext(exp) == Min(exp + 1, BackoffCap)

\* The delay of a generator whose counter is zero.
MinDelay == BackoffDelay(0)

\* -------------------------------------------------------------------- Init
Init ==
    /\ conns = [c \in ConnIds |-> "unused"]
    /\ websocket = 0
    /\ last_exc = "none"
    /\ available \in BOOLEAN
    /\ closed = "unset"
    /\ task = 0
    /\ auto_reconnect \in BOOLEAN
    /\ loops = [i \in LoopIds |-> NoLoop]
    /\ nWait = 0
    /\ nHandshake = 0
    /\ dispatch = <<>>
    /\ stats = 0
    /\ announced = 0
    /\ calls = 0
    /\ reconnected = FALSE
    /\ closure_seen = FALSE
    /\ stopped = FALSE
    /\ ev = Event("init", 0, "", <<>>)

\* ---------------------------------------------------------------- _connect
\* The host (Node.connect, or a caller retrying) invokes _connect(): the coroutine
\* starts and suspends in bot.wait_until_ready().
CallConnect ==
    /\ calls < MaxCallerConnects
    /\ nWait + nHandshake < MaxTasks
    /\ calls' = calls + 1
    /\ nWait' = nWait + 1
    /\ ev' = Event("CallConnect", 0, "", <<>>)
    /\ UNCHANGED <<conns, websocket, last_exc, available, closed, task, auto_reconnect,
                   loops, nHandshake, dispatch, stats, announced, reconnected, closure_seen,
                   stopped>>

\* StartListen without the `if not self._task` check: every successful _connect()
\* creates a _listen task.
StartListenAlways ==
    /\ FreeLoops # {}
    /\ LET s == CHOOSE i \in FreeLoops : \A j \in FreeLoops : i <= j
       IN /\ task' = s
          /\ loops' = [loops EXCEPT ![s] = [pc |-> "start", rx |-> 0, exp |-> 0, retry |-> 0]]

\* `if not self._task: self._task = create_task(self._listen())`
StartListen ==
    IF task = 0
    THEN /\ FreeLoops # {}
         /\ LET s == CHOOSE i \in FreeLoops : \A j \in FreeLoops : i <= j
            IN /\ task' = s
               /\ loops' = [loops EXCEPT ![s] = [pc |-> "start", rx |-> 0, exp |-> 0, retry |-> 0]]
    ELSE UNCHANGED <<task, loops>>

\* The part of _connect() after the try block, for a WebSocket whose _websocket is
\* ws over the transports cs; op names the step.
ConnectTail(op, ws, cs) ==
    /\ StartListen
    /\ last_exc' = "none"
    /\ closed' = "false"
    /\ available' = TRUE
    /\ IF IsConnectedOf(ws, cs)
       THEN /\ announced' = Min((IF ws = websocket THEN announced ELSE 0) + 1, CountCap)
            /\ ev' = Event(op, 0, "", <<NodeReady>>)
       ELSE /\ announced' = (IF ws = websocket THEN announced ELSE 0)
            /\ ev' = Event(op, 0, "", <<>>)

\* wait_until_ready() returns and the Node is not connected: the coroutine
\* suspends in ws_connect().
ConnectHandshake ==
    /\ nWait > 0
    /\ ~is_connected
    /\ nWait' = nWait - 1
    /\ nHandshake' = nHandshake + 1
    /\ ev' = Event("ConnectHandshake", 0, "", <<>>)
    /\ UNCHANGED <<conns, websocket, last_exc, available, closed, task, auto_reconnect,
                   loops, dispatch, stats, announced, calls, reconnected, closure_seen,
                   stopped>>

\* wait_until_ready() returns and the Node is connected: no handshake, and the
\* coroutine runs to its end.
ConnectSkip ==
    /\ nWait > 0
    /\ is_connected
    /\ nWait' = nWait - 1
    /\ ConnectTail("ConnectSkip", websocket, conns)
    /\ UNCHANGED <<conns, websocket, auto_reconnect, nHandshake, dispatch, stats, calls,
                   reconnected, closure_seen,
                   stopped>>

\* ws_connect() returns a new transport, and the coroutine runs to its end.
HandshakeOk ==
    /\ nHandshake > 0
    /\ \E c \in ConnIds : conns[c] = "unused"
    /\ LET c == FreshConn
           cs == [conns EXCEPT ![c] = "open"]
       IN /\ conns' = cs
          /\ websocket' = c
          /\ ConnectTail("HandshakeOk", c, cs)
    /\ nHandshake' = nHandshake - 1
    /\ reconnected' = TRUE
    /\ UNCHANGED <<auto_reconnect, nWait, dispatch, stats, calls, closure_seen,
                   stopped>>

\* ws_connect() raises: WSServerHandshakeError with status 401 ("auth") or anything
\* else ("transport").
HandshakeFail(error) ==
    /\ nHandshake > 0
    /\ nHandshake' = nHandshake - 1
    /\ last_exc' = error
    /\ available' = FALSE
    /\ ev' = Event("HandshakeFail", 0, error, <<>>)
    /\ UNCHANGED <<conns, websocket, closed, task, auto_reconnect, loops, nWait,
                   dispatch, stats, announced, calls, reconnected, closure_seen,
                   stopped>>

\* ----------------------------------------------------------------- _listen
\* What no step of a _listen task changes.
ListenKeeps == UNCHANGED <<websocket, last_exc, available, announced, calls>>

\* The task starts: `backoff = ExponentialBackoff(base=7)`, then the first
\* `await self._websocket.receive()`.
ListenStart(i) ==
    /\ loops[i].pc = "start"
    /\ loops' = [loops EXCEPT ![i] =
                    IF websocket = 0
                    THEN [pc |-> "dead", rx |-> 0, exp |-> 0, retry |-> 0]
                    ELSE [pc |-> "recv", rx |-> websocket, exp |-> 0, retry |-> 0]]
    /\ ev' = Event("ListenStart", i, "", <<>>)
    /\ ListenKeeps
    /\ UNCHANGED <<conns, closed, task, auto_reconnect, nWait, nHandshake, dispatch, stats,
                   reconnected, closure_seen,
                   stopped>>

\* receive() can return the closure indicator: the transport is closed already, or
\* it closes now.
CanReceiveClosed(i) == loops[i].pc = "recv" /\ conns[loops[i].rx] \in {"open", "closed"}

\* ListenClosedStop without `self._task = None`: the handle keeps referring to the
\* task that has returned.
ListenClosedStopKeepsTask(i) ==
    /\ CanReceiveClosed(i)
    /\ ~auto_reconnect
    /\ conns' = [conns EXCEPT ![loops[i].rx] = "closed"]
    /\ closed' = "true"
    /\ closure_seen' = TRUE
    /\ loops' = [j \in LoopIds |-> IF j = i \/ j = task THEN NoLoop ELSE loops[j]]
    /\ stopped' = TRUE
    /\ ev' = Event("ListenClosedStop", i, conns[loops[i].rx], <<NodeConnectionClosed>>)
    /\ ListenKeeps
    /\ UNCHANGED <<task, auto_reconnect, nWait, nHandshake, dispatch, stats, reconnected>>

\* receive() returns CLOSED and auto_reconnect is off: the notification, the
\* cancel of self._task, `self._task = None`, return.
ListenClosedStop(i) ==
    /\ CanReceiveClosed(i)
    /\ ~auto_reconnect
    /\ conns' = [conns EXCEPT ![loops[i].rx] = "closed"]
    /\ closed' = "true"
    /\ closure_seen' = TRUE
    /\ loops' = [j \in LoopIds |-> IF j = i \/ j = task THEN NoLoop ELSE loops[j]]
    /\ task' = 0
    /\ stopped' = TRUE
    /\ ev' = Event("ListenClosedStop", i, conns[loops[i].rx], <<NodeConnectionClosed>>)
    /\ ListenKeeps
    /\ UNCHANGED <<auto_reconnect, nWait, nHandshake, dispatch, stats, reconnected>>

\* receive() returns CLOSED and auto_reconnect is on: `retry = backoff.delay()`,
\* then the task suspends in asyncio.sleep(retry).
ListenClosedBackoff(i) ==
    /\ CanReceiveClosed(i)
    /\ auto_reconnect
    /\ conns' = [conns EXCEPT ![loops[i].rx] = "closed"]
    /\ closed' = "true"
    /\ closure_seen' = TRUE
    /\ loops' = [loops EXCEPT ![i] = [pc |-> "sleep", rx |-> 0,
                                      exp |-> BackoffNext(loops[i].exp),
                                      retry |-> BackoffDelay(loops[i].exp)]]
    /\ reconnected' = FALSE
    /\ ev' = Event("ListenClosedBackoff", i, conns[loops[i].rx], <<>>)
    /\ ListenKeeps
    /\ UNCHANGED <<task, auto_reconnect, nWait, nHandshake, dispatch, stats, stopped>>

\* ListenReconnect without `create_task(self._connect())`: the loop goes round
\* without starting an attempt.
ListenReconnectNoAttempt(i) ==
    /\ loops[i].pc = "sleep"
    /\ ~is_connected
    /\ loops' = [loops EXCEPT ![i].pc = "recv", ![i].rx = websocket]
    /\ ev' = Event("ListenReconnect", i, "", <<>>)
    /\ ListenKeeps
    /\ UNCHANGED <<conns, closed, task, auto_reconnect, nWait, nHandshake, dispatch, stats,
                   reconnected, closure_seen, stopped>>

\* The sleep ends and the Node is not connected: a _connect() task is created, and
\* the loop goes on to its next receive().
ListenReconnect(i) ==
    /\ loops[i].pc = "sleep"
    /\ ~is_connected
    /\ nWait + nHandshake < MaxTasks
    /\ nWait' = nWait + 1
    /\ loops' = [loops EXCEPT ![i].pc = "recv", ![i].rx = websocket]
    /\ ev' = Event("ListenReconnect", i, "", <<>>)
    /\ ListenKeeps
    /\ UNCHANGED <<conns, closed, task, auto_reconnect, nHandshake, dispatch, stats,
                   reconnected, closure_seen,
                   stopped>>

\* The sleep ends and the Node is connected: the loop goes on to its next receive().
ListenResume(i) ==
    /\ loops[i].pc = "sleep"
    /\ is_connected
    /\ loops' = [loops EXCEPT ![i].pc = "recv", ![i].rx = websocket]
    /\ ev' = Event("ListenResume", i, "", <<>>)
    /\ ListenKeeps
    /\ UNCHANGED <<conns, closed, task, auto_reconnect, nWait, nHandshake, dispatch, stats,
                   reconnected, closure_seen,
                   stopped>>

\* A loop that awaits process_data(msg.json()) itself instead of creating a task
\* for it: the task runs as before, and the loop waits for it.
ListenDataAwaits(i, f, cap) ==
    /\ loops[i].pc = "recv"
    /\ conns[loops[i].rx] = "open"
    /\ Len(dispatch) < cap
    /\ dispatch' = Append(dispatch, [frame |-> f, pc |-> "new"])
    /\ loops' = [loops EXCEPT ![i].pc = "dispatch"]
    /\ ev' = FrameEvent("ListenData", i, "", f, Len(dispatch) + 1, "", <<>>)
    /\ ListenKeeps
    /\ UNCHANGED <<conns, closed, task, auto_reconnect, nWait, nHandshake, stats,
                   reconnected, closure_seen, stopped>>

\* receive() returns a data frame and msg.json() decodes it to f: a process_data()
\* task is created, and the loop goes on to its next receive().  cap bounds the
\* tasks in flight.
ListenData(i, f, cap) ==
    /\ loops[i].pc = "recv"
    /\ conns[loops[i].rx] = "open"
    /\ Len(dispatch) < cap
    /\ dispatch' = Append(dispatch, [frame |-> f, pc |-> "new"])
    /\ loops' = [loops EXCEPT ![i].rx = websocket]
    /\ ev' = FrameEvent("ListenData", i, "", f, Len(dispatch) + 1, "", <<>>)
    /\ ListenKeeps
    /\ UNCHANGED <<conns, closed, task, auto_reconnect, nWait, nHandshake, stats,
                   reconnected, closure_seen, stopped>>

\* An exception leaves _listen: the task ends, and self._task keeps referring to it.
ListenRaises(op, i) ==
    /\ loops[i].pc = "recv"
    /\ conns[loops[i].rx] = "open"
    /\ loops' = [loops EXCEPT ![i] = [pc |-> "dead", rx |-> 0, exp |-> 0, retry |-> 0]]
    /\ ev' = Event(op, i, "", <<>>)
    /\ ListenKeeps
    /\ UNCHANGED <<conns, closed, task, auto_reconnect, nWait, nHandshake, dispatch, stats,
                   reconnected, closure_seen,
                   stopped>>

\* receive() returns a data frame whose payload msg.json() cannot decode: msg.json()
\* raises inside _listen.
ListenBadFrame(i) == ListenRaises("ListenBadFrame", i)

\* receive() itself raises.
ListenRecvError(i) == ListenRaises("ListenRecvError", i)

\* ------------------------------------------------------------ process_data
\* A _get_event_payload with a final else branch, which hands every name it does
\* not know to a catch-all listener.
GetEventPayloadCatchAll(name) ==
    IF name = "TrackEndEvent" THEN <<"wavelink_track_end", "TrackEnd">>
    ELSE <<"wavelink_event", "Event">>

\* A _get_event_payload whose first two branches return each other's pair.
GetEventPayloadSwapped(name) ==
    CASE name = "TrackEndEvent" -> <<"wavelink_track_start", "TrackStart">>
      [] name = "TrackStartEvent" -> <<"wavelink_track_end", "TrackEnd">>
      [] name = "TrackExceptionEvent" -> <<"wavelink_track_exception", "TrackException">>
      [] name = "TrackStuckEvent" -> <<"wavelink_track_stuck", "TrackStuck">>
      [] name = "WebSocketClosedEvent" -> <<"wavelink_websocket_closed", "WebsocketClosed">>
      [] OTHER -> <<>>

\* _get_event_payload(name, data): the listener and the payload's class, or <<>>
\* where the function falls off its end and returns None.
GetEventPayload(name) ==
    CASE name = "TrackEndEvent" -> <<"wavelink_track_end", "TrackEnd">>
      [] name = "TrackStartEvent" -> <<"wavelink_track_start", "TrackStart">>
      [] name = "TrackExceptionEvent" -> <<"wavelink_track_exception", "TrackException">>
      [] name = "TrackStuckEvent" -> <<"wavelink_track_stuck", "TrackStuck">>
      [] name = "WebSocketClosedEvent" -> <<"wavelink_websocket_closed", "WebsocketClosed">>
      [] OTHER -> <<>>

\* A stats branch that builds the snapshot and does not store it.
StatsSnapshotDropped(f) == stats

\* Stats(self._node, data): the snapshot built from a stats frame.
StatsSnapshot(f) == f.body

\* A lookup with a default, players.get(guildId, <first session>), in place of the
\* subscript that raises KeyError.
PlayerLookupDefault(guildId) == IF guildId \in Sessions THEN guildId ELSE 1

\* self._node.players[int(data['guildId'])]: the session, or 0 for a KeyError.
PlayerLookup(guildId) == IF guildId \in Sessions THEN guildId ELSE 0

\* What process_data(f) does up to its first suspension: how it leaves the step,
\* the bot.dispatch() calls, the new self._node.stats, and the session whose
\* update_state() it has called (0: none).
ProcessFrame(f) ==
    LET result(res, out, st, upd) == [res |-> res, out |-> out, stats |-> st, update |-> upd]
        player == PlayerLookup(f.guildId)
    IN  IF f.op = ""
        THEN result("returned", <<>>, stats, 0)
        ELSE LET st == IF f.op = "stats" THEN StatsSnapshot(f) ELSE stats
             IN  CASE f.op = "event" ->
                        IF player = 0
                        THEN result("returned", <<>>, st, 0)
                        ELSE LET got == GetEventPayload(f.type)
                             IN  IF Len(got) # 2
                                 THEN result("raised", <<>>, st, 0)
                                 ELSE result("returned", <<Emit(got[1], got[2], player)>>, st, 0)
                   [] f.op = "playerUpdate" ->
                        IF player = 0
                        THEN result("returned", <<>>, st, 0)
                        ELSE result("suspended", <<>>, st, player)
                   [] OTHER -> result("returned", <<>>, st, 0)

\* The sequence q without its k-th element.
Without(q, k) == [j \in 1..(Len(q) - 1) |-> IF j < k THEN q[j] ELSE q[j + 1]]

\* What no step of a process_data task changes.
ProcessKeeps ==
    UNCHANGED <<conns, websocket, last_exc, available, closed, task, auto_reconnect, loops,
                nWait, nHandshake, announced, calls, reconnected, closure_seen, stopped>>

\* The k-th scheduled process_data() task runs from its start: to its end, or into
\* the await of the session's update_state().  The event loop starts tasks in the
\* order of their creation.
ProcessData(k) ==
    /\ k \in 1..Len(dispatch)
    /\ dispatch[k].pc = "new"
    /\ \A j \in 1..(k - 1) : dispatch[j].pc # "new"
    /\ LET f == dispatch[k].frame
           r == ProcessFrame(f)
       IN /\ stats' = r.stats
          /\ dispatch' = IF r.res = "suspended"
                         THEN [dispatch EXCEPT ![k].pc = "update"]
                         ELSE Without(dispatch, k)
          /\ ev' = FrameEvent("ProcessData", 0, "", f, k, r.res, r.out)
    /\ ProcessKeeps

\* The number of tasks in q that await update_state() of session g.
UpdatesAwaited(q, g) ==
    Cardinality({k \in 1..Len(q) : q[k].pc = "update" /\ q[k].frame.guildId = g})

\* How process_data() ends when the awaited update_state() ends with outcome:
\* "ok", "KeyError" or "Exception" (any other exception).
UpdateResult(outcome) ==
    CASE outcome = "ok" -> "returned"
      [] outcome = "KeyError" -> "returned"
      [] OTHER -> "raised"

\* The update_state() the k-th task awaits returns or raises, and the task ends.
ProcessUpdateReturn(k, outcome) ==
    /\ k \in 1..Len(dispatch)
    /\ dispatch[k].pc = "update"
    /\ dispatch' = Without(dispatch, k)
    /\ ev' = FrameEvent("ProcessUpdateReturn", 0, outcome, dispatch[k].frame, k,
                        UpdateResult(outcome), <<>>)
    /\ UNCHANGED stats
    /\ ProcessKeeps

\* ------------------------------------------------------------------- _send
\* A _send() without the is_connected test: send_str() is called on whatever
\* _websocket holds, and fails on None and on a closed transport.
SendResultUnguarded(ws, cs, ok) ==
    IF IsConnectedOf(ws, cs) /\ ok THEN "sent" ELSE "raised"

\* How _send() ends on a WebSocket whose _websocket is ws over the transports cs:
\* "noop" (nothing done), "sent" (send_str() wrote the frame) or "raised"; ok tells
\* whether a send_str() that is called succeeds.
SendResult(ws, cs, ok) ==
    IF IsConnectedOf(ws, cs)
    THEN IF ok THEN "sent" ELSE "raised"
    ELSE "noop"

\* The host calls _send(**data).
Send(ok) ==
    /\ ev' = FrameEvent("Send", 0, "", NoFrame, 0, SendResult(websocket, conns, ok), <<>>)
    /\ UNCHANGED <<dispatch, stats>>
    /\ ProcessKeeps

\* ------------------------------------------------------------------- host
\* The host sets the auto_reconnect attribute.
SetAutoReconnect(b) ==
    /\ auto_reconnect # b
    /\ auto_reconnect' = b
    /\ stopped' = (stopped /\ ~b)
    /\ ev' = Event("SetAutoReconnect", 0, "", <<>>)
    /\ UNCHANGED <<conns, websocket, last_exc, available, closed, task, loops, nWait,
                   nHandshake, dispatch, stats, announced, calls, reconnected, closure_seen>>

\* The steps of the connection's life: connect, receive loop, reconnect path.
NextConnection ==
    \/ CallConnect
    \/ ConnectHandshake
    \/ ConnectSkip
    \/ HandshakeOk
    \/ \E error \in {"auth", "transport"} : HandshakeFail(error)
    \/ \E i \in LoopIds : ListenStart(i)
    \/ \E i \in LoopIds : ListenClosedStop(i)
    \/ \E i \in LoopIds : ListenClosedBackoff(i)
    \/ \E i \in LoopIds : ListenReconnect(i)
    \/ \E i \in LoopIds : ListenResume(i)
    \/ \E i \in LoopIds : ListenBadFrame(i)
    \/ \E i \in LoopIds : ListenRecvError(i)
    \/ \E b \in BOOLEAN : SetAutoReconnect(b)

Next ==
    \/ NextConnection
    \/ \E i \in LoopIds : ListenData(i, IgnoredFrame, MaxDispatch)
    \/ \E k \in 1..MaxDispatch : ProcessData(k)

Spec == Init /\ [][Next]_vars

\* receive() on a transport that is closed already returns the closure indicator.
ListenClosedAgain(i) ==
    /\ loops[i].pc = "recv"
    /\ conns[loops[i].rx] = "closed"
    /\ (ListenClosedStop(i) \/ ListenClosedBackoff(i))

\* The event loop runs every task that is ready: a _connect() leaves
\* wait_until_ready(), a handshake returns or raises, a sleep ends, a receive() on a
\* closed transport returns.  What a live transport delivers, and what the host
\* does, is under no obligation.  On top of the scheduling, handshakes that are
\* attempted again and again succeed at some point.
Fairness ==
    /\ WF_vars(ConnectHandshake)
    /\ WF_vars(ConnectSkip)
    /\ WF_vars(HandshakeOk \/ \E error \in {"auth", "transport"} : HandshakeFail(error))
    /\ SF_vars(HandshakeOk)
    /\ \A i \in LoopIds :
          /\ WF_vars(ListenStart(i))
          /\ WF_vars(ListenReconnect(i))
          /\ WF_vars(ListenResume(i))
          /\ WF_vars(ListenClosedAgain(i))

\* The connection's life under fair scheduling; the frames a live transport
\* delivers play no part in it and are left out.
FairSpec == Init /\ [][NextConnection]_vars /\ Fairness

\* -------------------------------------------------------------- dispatcher
\* A WebSocket configured with auto_reconnect off.
InitDispatch == Init /\ ~auto_reconnect

\* One connection from handshake to closure, the frames it delivers and their
\* processing.
NextDispatch ==
    \/ CallConnect
    \/ ConnectHandshake
    \/ HandshakeOk
    \/ \E error \in {"auth", "transport"} : HandshakeFail(error)
    \/ \E i \in LoopIds : ListenStart(i)
    \/ \E i \in LoopIds : ListenClosedStop(i)
    \/ \E i \in LoopIds : ListenBadFrame(i)
    \/ \E i \in LoopIds, f \in Frames : ListenData(i, f, MaxDispatch)
    \/ \E k \in 1..MaxDispatch : ProcessData(k)
    \/ \E k \in 1..MaxDispatch, outcome \in {"ok", "KeyError", "Exception"} :
          ProcessUpdateReturn(k, outcome)

DispatchSpec == InitDispatch /\ [][NextDispatch]_vars

\* ------------------------------------------------------------------- sender
\* The connection's life, with the host sending at any point of it.
NextSend ==
    \/ NextConnection
    \/ \E ok \in BOOLEAN : Send(ok)

SendSpec == Init /\ [][NextSend]_vars

\* -------------------------------------------------------------------- pump
\* The frames whose processing awaits a session, and one whose processing replaces
\* the statistics without awaiting.
PumpFrames ==
    {Frame("stats", "", 0, 1)} \cup {Frame("playerUpdate", "", g, 0) : g \in Sessions}

\* One connection delivering frames faster than their processing ends.
NextPump ==
    \/ CallConnect
    \/ ConnectHandshake
    \/ HandshakeOk
    \/ \E error \in {"auth", "transport"} : HandshakeFail(error)
    \/ \E i \in LoopIds : ListenStart(i)
    \/ \E i \in LoopIds, f \in PumpFrames : ListenData(i, f, MaxPending)
    \/ \E k \in 1..MaxPending : ProcessData(k)
    \/ \E k \in 1..MaxPending, outcome \in {"ok", "KeyError", "Exception"} :
          ProcessUpdateReturn(k, outcome)

PumpSpec == InitDispatch /\ [][NextPump]_vars

\* ================================================================== claims

\* C1: whenever a receive loop observes the closure of a transport that was live
\* until then and draws a backoff delay, the delay is the minimum if a handshake has
\* succeeded since the previous draw (the backoff state is reset by every
\* successful connect), and otherwise it is not smaller than the delay the loop
\* drew before.
C1_DelayMonotoneAndReset ==
    [][\A i \in LoopIds :
         (loops[i].pc = "recv" /\ conns[loops[i].rx] = "open" /\ loops'[i].pc = "sleep")
            => IF reconnected
               THEN loops'[i].retry = MinDelay
               ELSE loops'[i].retry >= loops[i].retry]_vars

\* C2: in every reachable state at most one transport is opened and not closed.
C2_AtMostOneLiveConnection == Cardinality(LiveConns) <= 1

\* C3: after a data frame whose payload cannot be decoded, the receive loop that
\* read it is still active and in its next receive.
C3_DecodeFailureKeepsLoop ==
    ev.op = "ListenBadFrame" => loops[ev.loop].pc = "recv"

\* C4: after receive() raised, the loop is not dead, and with auto-reconnect
\* enabled it has drawn a backoff delay and sleeps before its connect() attempt.
C4_ReceiveErrorIsClosure ==
    ev.op = "ListenRecvError"
        => /\ loops[ev.loop].pc # "dead"
           /\ auto_reconnect => loops[ev.loop].pc = "sleep"

\* C5: while the last connect() failure on record is an authentication failure,
\* the reconnect path starts no connect() attempt.
C5_NoRetryAfterAuthFailure ==
    last_exc = "auth" => ev.op # "ListenReconnect"

\* C6: while the last connect() failure on record is a transport failure and
\* auto-reconnect is enabled, the reconnect cycle is under way: a connect() attempt
\* is in flight or a receive loop is alive to start one. (The only place of the
\* core that starts a connect() attempt is the receive loop, so where neither
\* holds no later attempt is ever started by the core.)
C6_TransportFailureRearms ==
    (last_exc = "transport" /\ auto_reconnect)
        => (nWait + nHandshake > 0 \/ ActiveLoops # {})

\* C7: in every reachable state after a receive loop has observed a closure, the
\* Node is available only if it is connected.
C7_UnavailableDuringGap ==
    (closure_seen /\ available) => is_connected

\* C8: whenever a connect() has just completed successfully, a receive loop is
\* active.
C8_LoopRunsAfterConnect ==
    ev.op \in {"HandshakeOk", "ConnectSkip"} => ActiveLoops # {}

\* C9: when a receive loop has just received the closure indicator with
\* auto-reconnect disabled, the loop has ended, the task handle is cleared and that
\* step emitted the connection-closed notification once and nothing else; and after
\* such an end, for as long as auto-reconnect
\* stays disabled, the reconnect path starts no connect() attempt.
C9_ClosedWithoutReconnect ==
    /\ ev.op = "ListenClosedStop"
          => /\ loops[ev.loop].pc = "off"
             /\ ActiveLoops = {}
             /\ task = 0
             /\ ev.out = <<NodeConnectionClosed>>
    /\ stopped => ev.op # "ListenReconnect"

\* C9 witness: a live transport has just delivered the closure indicator to a
\* receive loop while auto-reconnect was disabled.
C9_Witness ==
    /\ ev.op = "ListenClosedStop"
    /\ ev.arg = "open"
    /\ ~auto_reconnect
    /\ ev.out = <<NodeConnectionClosed>>
    /\ task = 0

\* C10: when a connect() whose handshake succeeded returns, the Node is connected
\* and available, the last-failure record is clear and the step emitted node-ready
\* once; and no transport is announced as ready more than once.
C10_ReadyOncePerConnection ==
    /\ ev.op = "HandshakeOk"
          => /\ is_connected
             /\ available
             /\ last_exc = "none"
             /\ ev.out = <<NodeReady>>
    /\ announced <= 1

\* C17: in every reachable state at most one _listen task is active.
C17_AtMostOneLoop == Cardinality(ActiveLoops) <= 1

\* C17 witness: a _connect() has just completed successfully after a closure, while
\* the receive loop created by an earlier _connect() is still active.
C17_Witness ==
    /\ ev.op \in {"HandshakeOk", "ConnectSkip"}
    /\ closure_seen
    /\ task # 0
    /\ loops[task].pc \in {"recv", "sleep"}

\* C18: whenever the reconnect path starts a connect() attempt, auto-reconnect is
\* enabled at that moment.
C18_NoReconnectWhenDisabled ==
    ev.op = "ListenReconnect" => auto_reconnect

\* C11: whenever a receive loop is active on a Node that a closure has left
\* disconnected, with auto-reconnect enabled, then under fair scheduling and
\* handshakes that succeed at some point a handshake succeeds later, leaving the
\* Node connected with node-ready emitted -- unless the host disables
\* auto-reconnect first, or the transports of the run (MaxConns) are used up.
C11_EventuallyReconnected ==
    (closure_seen /\ ~is_connected /\ ActiveLoops # {} /\ auto_reconnect)
        ~> \/ (is_connected /\ ev.op = "HandshakeOk" /\ ev.out = <<NodeReady>>)
           \/ ~auto_reconnect
           \/ \A c \in ConnIds : conns[c] # "unused"

\* C11 witness: a handshake has just succeeded for a loop that went through its
\* backoff more than once after a closure.
C11_Witness ==
    /\ ev.op = "HandshakeOk"
    /\ ev.out = <<NodeReady>>
    /\ closure_seen
    /\ is_connected
    /\ task # 0
    /\ loops[task].exp >= 2

\* ------------------------------------------------------------------- C12
\* An event frame of a session that exists and of a type _get_event_payload does
\* not know.
IsUnknownEvent(f) ==
    f.op = "event" /\ f.guildId \in Sessions /\ f.type \notin EventNames

\* C12: processing an event frame whose session exists and whose type is not a
\* recognized event name makes no call of bot.dispatch() and ends (the task does
\* not stay in flight), and it leaves every _listen task where it was, the
\* transports, the loop's handle and the closed/available flags untouched, so a
\* loop that was waiting in receive() on an open transport still is.
C12_UnknownEventIsDropped ==
    [][(ev'.op = "ProcessData" /\ IsUnknownEvent(ev'.frame))
         => /\ ev'.out = <<>>
            /\ ev'.res # "suspended"
            /\ Len(dispatch') = Len(dispatch) - 1
            /\ loops' = loops
            /\ conns' = conns
            /\ websocket' = websocket
            /\ task' = task
            /\ closed' = closed
            /\ available' = available]_vars

\* An unknown event has been processed while a loop waits in receive() on the open
\* transport, with room for the next frame's task.
C12_Witness ==
    /\ ev.op = "ProcessData"
    /\ IsUnknownEvent(ev.frame)
    /\ ev.out = <<>>
    /\ \E i \in LoopIds : loops[i].pc = "recv" /\ conns[loops[i].rx] = "open"
    /\ Len(dispatch) < MaxDispatch

\* ------------------------------------------------------------------- C13
\* C13: processing a playerUpdate frame whose guildId is no key of the session
\* mapping returns without raising, calls bot.dispatch() for nothing, starts no
\* update_state() of any session (no session gains an awaited update), and leaves
\* the cached statistics as they were.
C13_UnknownSessionUpdateIgnored ==
    [][(/\ ev'.op = "ProcessData"
        /\ ev'.frame.op = "playerUpdate"
        /\ ev'.frame.guildId \notin Sessions)
         => /\ ev'.res = "returned"
            /\ ev'.out = <<>>
            /\ stats' = stats
            /\ \A g \in Sessions : UpdatesAwaited(dispatch', g) = UpdatesAwaited(dispatch, g)]_vars

\* A playerUpdate frame for an unknown session has been processed while statistics
\* were cached.
C13_Witness ==
    /\ ev.op = "ProcessData"
    /\ ev.frame.op = "playerUpdate"
    /\ ev.frame.guildId \notin Sessions
    /\ ev.res = "returned"
    /\ stats # 0

\* ------------------------------------------------------------------- C14
\* C14: processing an event frame whose guildId is a key of the session mapping
\* and whose type is one of the five recognized names calls bot.dispatch() exactly
\* once, with the payload class that goes with the name (TrackEndEvent -> TrackEnd,
\* TrackStartEvent -> TrackStart, TrackExceptionEvent -> TrackException,
\* TrackStuckEvent -> TrackStuck, WebSocketClosedEvent -> WebsocketClosed), with
\* the Node, and with the session the guildId resolves to and no other.
C14_RecognizedEventEmitsOnce ==
    LET kind == [t \in EventNames |->
                   CASE t = "TrackEndEvent" -> "TrackEnd"
                     [] t = "TrackStartEvent" -> "TrackStart"
                     [] t = "TrackExceptionEvent" -> "TrackException"
                     [] t = "TrackStuckEvent" -> "TrackStuck"
                     [] t = "WebSocketClosedEvent" -> "WebsocketClosed"]
    IN  (/\ ev.op = "ProcessData"
         /\ ev.frame.op = "event"
         /\ ev.frame.guildId \in Sessions
         /\ ev.frame.type \in EventNames)
          => /\ Len(ev.out) = 1
             /\ ev.out[1].payload = kind[ev.frame.type]
             /\ ev.out[1].node = "node"
             /\ ev.out[1].player = ev.frame.guildId

\* A TrackEndEvent frame of the second session has produced one TrackEnd emission
\* carrying that session.
C14_Witness ==
    /\ ev.op = "ProcessData"
    /\ ev.frame = Frame("event", "TrackEndEvent", MaxSessions, 0)
    /\ ev.out = <<Emit("wavelink_track_end", "TrackEnd", MaxSessions)>>

\* ------------------------------------------------------------------- C16
\* C16: processing a stats frame leaves self._node.stats equal to the snapshot of
\* that frame, calls bot.dispatch() for nothing, and returns without awaiting any
\* session's update_state().
C16_StatsFrameReplacesStats ==
    (ev.op = "ProcessData" /\ ev.frame.op = "stats")
      => /\ stats = ev.frame.body
         /\ ev.out = <<>>
         /\ ev.res = "returned"

\* The statistics hold the second body right after a stats frame carrying it was
\* processed.
C16_Witness ==
    /\ ev.op = "ProcessData"
    /\ ev.frame = Frame("stats", "", 0, MaxBody)
    /\ stats = MaxBody

\* ------------------------------------------------------------------- C19
\* C19: when the update_state() awaited for a playerUpdate frame raises, of
\* whatever kind the exception is, process_data() ends by raising.
C19_UpdateErrorsPropagate ==
    (ev.op = "ProcessUpdateReturn" /\ ev.arg \in {"KeyError", "Exception"})
      => ev.res = "raised"

\* ------------------------------------------------------------------- C15
\* C15: a _send() called while is_connected is false (no transport, or a closed
\* one) does nothing: it neither raises nor reaches send_str(), so it writes
\* nothing and does not suspend, and the transports, _websocket, the loop's handle
\* and the closed/available/_last_exc fields are as they were.
C15_SendWhileDisconnectedIsNoOp ==
    [][(ev'.op = "Send" /\ ~is_connected)
         => /\ ev'.res = "noop"
            /\ conns' = conns
            /\ websocket' = websocket
            /\ task' = task
            /\ closed' = closed
            /\ available' = available
            /\ last_exc' = last_exc]_vars

\* A _send() has been called while _websocket held a closed transport.
C15_Witness ==
    /\ ev.op = "Send"
    /\ ev.res = "noop"
    /\ websocket # 0
    /\ conns[websocket] = "closed"

\* ------------------------------------------------------------------- C20
\* C20: the step in which the loop reads a data frame creates one process_data
\* task for that frame, not yet started, behind the tasks already in flight
\* (started, suspended or not), and leaves the loop at its next receive(); the step
\* needs no task in flight to have ended.
C20_LoopNeverWaitsForDispatch ==
    [][ev'.op = "ListenData"
         => /\ loops'[ev'.loop].pc = "recv"
            /\ dispatch' = Append(dispatch, [frame |-> ev'.frame, pc |-> "new"])
            /\ ev'.slot = Len(dispatch) + 1]_vars

\* The processing of the second frame read has ended while the processing of the
\* first is still suspended in update_state(), and the loop waits in receive().
C20_Witness ==
    /\ ev.op = "ProcessData"
    /\ ev.slot = 2
    /\ ev.res = "returned"
    /\ Len(dispatch) = 1
    /\ dispatch[1].pc = "update"
    /\ \E i \in LoopIds : loops[i].pc = "recv"

====
